---- MODULE Spec2Model ----
(***************************************************************************)
(* Model of package generichttp (handler.go): the typed Request/Response   *)
(* envelopes, the JSON dispatch adapter, the JSON writers and the          *)
(* capability-based error rendering, together with the demo addHandler.    *)
(*                                                                         *)
(* A request body and a response body are sequences of JSON tokens, each   *)
(* token a string.  R is addRequest {A int "a"; B int "b"} and W is a      *)
(* payload that is either an addResponse {Result int "result"} or a value  *)
(* encoding/json cannot encode.                                            *)
(***************************************************************************)
EXTENDS Integers, Sequences, FiniteSets, TLC

VARIABLES pc, body, plan, req, ret, sink, calls

vars == <<pc, body, plan, req, ret, sink, calls>>

\* Number of requests the host may dispatch concurrently.
NumReq == 2

\* The LimitReader ceiling of NewRequest (1<<20 bytes), scaled to tokens.
ReadLimit == 11

Requests == 1..NumReq

StatusOK == 200
StatusBadRequest == 400
StatusInternalServerError == 500

Min(a, b) == IF a < b THEN a ELSE b

(***************************************************************************)
(* JSON tokens                                                             *)
(***************************************************************************)
Digits == <<"0", "1", "2", "3", "4", "5", "6", "7", "8", "9">>

NumTok(n) == Digits[n + 1]

IsNumber(t) == \E k \in 1..Len(Digits) : Digits[k] = t

NumVal(t) == (CHOOSE k \in 1..Len(Digits) : Digits[k] = t) - 1

Quote(s) == "\"" \o s \o "\""

StringLits == {Quote("a"), Quote("b"), Quote("s"), Quote("c")}

IsString(t) == t \in StringLits

IsScalar(t) == IsNumber(t) \/ IsString(t) \/ t = "null"

(***************************************************************************)
(* json.Decoder.Decode, as NewRequest uses it: the scanner finds the end   *)
(* of the first value of the stream (a syntax error or an early end of     *)
(* input is reported before anything is stored), then the value is stored. *)
(***************************************************************************)
RECURSIVE Scan(_, _, _, _)
Scan(s, i, st, depth) ==
  IF i > Len(s) THEN [ok |-> FALSE, n |-> 0]
  ELSE LET t == s[i]
           Close == IF depth = 1 THEN [ok |-> TRUE, n |-> i]
                    ELSE Scan(s, i + 1, "commaOrEnd", depth - 1)
           Bad == [ok |-> FALSE, n |-> 0]
       IN CASE st = "beginValue" ->
                 IF t = "{" THEN Scan(s, i + 1, "keyOrEnd", depth + 1)
                 ELSE IF IsScalar(t)
                      THEN IF depth = 0 THEN [ok |-> TRUE, n |-> i]
                           ELSE Scan(s, i + 1, "commaOrEnd", depth)
                      ELSE Bad
            [] st = "keyOrEnd" ->
                 IF t = "}" THEN Close
                 ELSE IF IsString(t) THEN Scan(s, i + 1, "colon", depth)
                 ELSE Bad
            [] st = "key" ->
                 IF IsString(t) THEN Scan(s, i + 1, "colon", depth) ELSE Bad
            [] st = "colon" ->
                 IF t = ":" THEN Scan(s, i + 1, "beginValue", depth) ELSE Bad
            [] st = "commaOrEnd" ->
                 IF t = "," THEN Scan(s, i + 1, "key", depth)
                 ELSE IF t = "}" THEN Close
                 ELSE Bad
            [] OTHER -> Bad

readValue(s) == Scan(s, 1, "beginValue", 0)

\* The zero value of addRequest and a nil / non-nil *addRequest.
ZeroR == [A |-> 0, B |-> 0]
NilR == [nil |-> TRUE, val |-> ZeroR]
PtrR(v) == [nil |-> FALSE, val |-> v]

\* Index of the token after the value that starts at s[i] (s is well formed).
RECURSIVE SkipValue(_, _, _)
SkipValue(s, i, depth) ==
  LET t == s[i]
  IN IF t = "{" THEN SkipValue(s, i + 1, depth + 1)
     ELSE IF t = "}" THEN (IF depth = 1 THEN i + 1 ELSE SkipValue(s, i + 1, depth - 1))
     ELSE IF depth = 0 THEN i + 1
     ELSE SkipValue(s, i + 1, depth)

\* StoreField with the two fields confused.
StoreFieldSwapped(acc, key, t) ==
  LET mismatch == ~IsNumber(t) /\ t # "null"
      known == key \in {Quote("a"), Quote("b")}
      v == IF IsNumber(t) THEN NumVal(t)
           ELSE IF key = Quote("a") THEN acc.val.B ELSE acc.val.A
  IN IF ~known THEN acc
     ELSE [val |-> IF key = Quote("a") THEN [acc.val EXCEPT !.B = v]
                   ELSE [acc.val EXCEPT !.A = v],
           err |-> acc.err \/ mismatch]

\* Store one member's value into the struct: a number fits an int field, null
\* leaves the field alone, anything else is a type error that is remembered
\* while decoding goes on; a key that names no field is skipped.
StoreField(acc, key, t) ==
  LET mismatch == ~IsNumber(t) /\ t # "null"
      known == key \in {Quote("a"), Quote("b")}
      v == IF IsNumber(t) THEN NumVal(t)
           ELSE IF key = Quote("a") THEN acc.val.A ELSE acc.val.B
  IN IF ~known THEN acc
     ELSE [val |-> IF key = Quote("a") THEN [acc.val EXCEPT !.A = v]
                   ELSE [acc.val EXCEPT !.B = v],
           err |-> acc.err \/ mismatch]

\* The members of the object whose first key (or closing brace) is s[i].
RECURSIVE DecodeObject(_, _, _)
DecodeObject(s, i, acc) ==
  IF s[i] = "}" THEN acc
  ELSE IF s[i] = "," THEN DecodeObject(s, i + 1, acc)
  ELSE DecodeObject(s, SkipValue(s, i + 2, 0), StoreField(acc, s[i], s[i + 2]))

\* d.unmarshal(&req.Data) on a well-formed value: null sets the pointer to
\* nil; for every other value the pointer is allocated first and the value
\* stored into the struct it points to.
Unmarshal(s) ==
  IF s[1] = "null" THEN [Data |-> NilR, err |-> FALSE]
  ELSE IF s[1] = "{"
       THEN LET o == DecodeObject(s, 2, [val |-> ZeroR, err |-> FALSE])
            IN [Data |-> PtrR(o.val), err |-> o.err]
       ELSE [Data |-> PtrR(ZeroR), err |-> TRUE]

LimitReader(b) == SubSeq(b, 1, Min(Len(b), ReadLimit))

Decode(b) ==
  LET s == LimitReader(b)
      r == readValue(s)
  IN IF ~r.ok THEN [Data |-> NilR, err |-> TRUE]
     ELSE Unmarshal(SubSeq(s, 1, r.n))

\* NewRequest: the decoder's error is discarded, req.Data is what it left.
NewRequest(b) == [Data |-> Decode(b).Data]

(***************************************************************************)
(* Response envelope, payloads and errors                                  *)
(***************************************************************************)
\* A payload of type W and a nil / non-nil *W.
ZeroW == [kind |-> "addResponse", Result |-> 0]
AddResponse(n) == [kind |-> "addResponse", Result |-> n]
Unsupported == [kind |-> "unsupported", Result |-> 0]
NilW == [nil |-> TRUE, val |-> ZeroW]
PtrW(v) == [nil |-> FALSE, val |-> v]

\* A nil *Response[W] and the Response struct behind a non-nil one.
NilResp == [nil |-> TRUE, StatusCode |-> 0, Data |-> NilW]
Response(code, data) == [nil |-> FALSE, StatusCode |-> code, Data |-> data]

NewResponseWithCode(code, data) == Response(code, data)

NewResponse(data) == NewResponseWithCode(StatusOK, data)

\* Error values: nil, an error with neither capability, one with HTTPCode()
\* only, one with HTTPError() only, one with both, and BadRequestError.
NoErr == [type |-> "nil", code |-> 0, msg |-> "", Message |-> ""]
PlainErr == [type |-> "plain", code |-> 0, msg |-> "", Message |-> ""]
CodeErr(c) == [type |-> "code", code |-> c, msg |-> "", Message |-> ""]
MsgErr(m) == [type |-> "msg", code |-> 0, msg |-> m, Message |-> ""]
BothErr(c, m) == [type |-> "both", code |-> c, msg |-> m, Message |-> ""]
BadRequestError(m) == [type |-> "BadRequestError", code |-> 0, msg |-> "", Message |-> m]

\* err.(interface{ HTTPCode() int }) and err.(interface{ HTTPError() string })
HasHTTPCode(e) == e.type \in {"code", "both", "BadRequestError"}
HasHTTPError(e) == e.type \in {"msg", "both", "BadRequestError"}

\* HTTPError without the default text.
HTTPErrorNoDefault(e) == IF e.type = "BadRequestError" THEN e.Message ELSE e.msg

HTTPError(e) ==
  IF e.type = "BadRequestError"
  THEN IF e.Message # "" THEN e.Message ELSE "Bad request"
  ELSE e.msg

HTTPCode(e) == IF e.type = "BadRequestError" THEN StatusBadRequest ELSE e.code

ErrorString(e) == IF e.type = "BadRequestError" THEN HTTPError(e) ELSE "error"

(***************************************************************************)
(* The response sink: the operations performed on it, in order.  `by` is   *)
(* the function that performed the operation.                              *)
(***************************************************************************)
SetHeaderOp(by, k, v) ==
  [op |-> "Header.Set", by |-> by, key |-> k, val |-> v, code |-> 0, bytes |-> <<>>]
WriteHeaderOp(by, c) ==
  [op |-> "WriteHeader", by |-> by, key |-> "", val |-> "", code |-> c, bytes |-> <<>>]
WriteOp(by, b) ==
  [op |-> "Write", by |-> by, key |-> "", val |-> "", code |-> 0, bytes |-> b]

\* MarshalData encoding the Response struct instead of its Data.
MarshalDataWrapped(d) ==
  IF d.nil THEN [ok |-> TRUE, bytes |-> <<"{", "}">>]
  ELSE IF d.val.kind = "unsupported" THEN [ok |-> FALSE, bytes |-> <<>>]
  ELSE [ok |-> TRUE,
        bytes |-> <<"{", Quote("data"), ":", "{", Quote("result"), ":",
                    NumTok(d.val.Result), "}", "}">>]

\* json.Marshal of a *W: a nil pointer is null, a value json cannot encode
\* is an error.
MarshalData(d) ==
  IF d.nil THEN [ok |-> TRUE, bytes |-> <<"null">>]
  ELSE IF d.val.kind = "unsupported" THEN [ok |-> FALSE, bytes |-> <<>>]
  ELSE [ok |-> TRUE,
        bytes |-> <<"{", Quote("result"), ":", NumTok(d.val.Result), "}">>]

\* json.Marshal of struct{ Message string `json:"message"` }
MarshalMessage(m) ==
  [ok |-> TRUE, bytes |-> <<"{", Quote("message"), ":", Quote(m), "}">>]

\* json.NewEncoder(w).Encode(v): nothing is written when marshalling fails,
\* else the encoding and a newline are written in one Write.
Encode(w, by, m) ==
  IF m.ok THEN Append(w, WriteOp(by, Append(m.bytes, "\n"))) ELSE w

\* WriteJSONCode without the default for a zero code.
WriteJSONCodeNoDefault(w, code, data) ==
  LET w1 == Append(w, SetHeaderOp("WriteJSONCode", "Content-Type", "application/json"))
      w2 == Append(w1, WriteHeaderOp("WriteJSONCode", code))
  IN Encode(w2, "WriteJSONCode", MarshalData(data))

WriteJSONCode(w, code, data) ==
  LET w1 == Append(w, SetHeaderOp("WriteJSONCode", "Content-Type", "application/json"))
      c == IF code = 0 THEN StatusOK ELSE code
      w2 == Append(w1, WriteHeaderOp("WriteJSONCode", c))
  IN Encode(w2, "WriteJSONCode", MarshalData(data))

\* WriteJSONError looking for HTTPError() only on errors that have HTTPCode().
WriteJSONErrorNested(w, err) ==
  LET w1 == Append(w, SetHeaderOp("WriteJSONError", "Content-Type", "application/json"))
      w2 == IF HasHTTPCode(err)
            THEN Append(w1, WriteHeaderOp("WriteJSONError", HTTPCode(err)))
            ELSE Append(w1, WriteHeaderOp("WriteJSONError", StatusInternalServerError))
      msg == IF HasHTTPCode(err) /\ HasHTTPError(err) THEN HTTPError(err)
             ELSE "Internal server error"
  IN Encode(w2, "WriteJSONError", MarshalMessage(msg))

WriteJSONError(w, err) ==
  LET w1 == Append(w, SetHeaderOp("WriteJSONError", "Content-Type", "application/json"))
      w2 == IF HasHTTPCode(err)
            THEN Append(w1, WriteHeaderOp("WriteJSONError", HTTPCode(err)))
            ELSE Append(w1, WriteHeaderOp("WriteJSONError", StatusInternalServerError))
      msg == IF HasHTTPError(err) THEN HTTPError(err) ELSE "Internal server error"
  IN Encode(w2, "WriteJSONError", MarshalMessage(msg))

\* JSONRespond without the check of resp.Data.
JSONRespondAlwaysWrite(w, resp, err) ==
  IF err.type # "nil" THEN [w |-> WriteJSONError(w, err), panic |-> FALSE]
  ELSE IF resp.nil THEN [w |-> w, panic |-> TRUE]
  ELSE [w |-> WriteJSONCode(w, resp.StatusCode, resp.Data), panic |-> FALSE]

\* JSONRespond without the return after WriteJSONError.
JSONRespondNoReturn(w, resp, err) ==
  LET w1 == IF err.type # "nil" THEN WriteJSONError(w, err) ELSE w
  IN IF resp.nil THEN [w |-> w1, panic |-> TRUE]
     ELSE IF ~resp.Data.nil
          THEN [w |-> WriteJSONCode(w1, resp.StatusCode, resp.Data), panic |-> FALSE]
          ELSE [w |-> w1, panic |-> FALSE]

\* The body of the closure JSON returns, after the handler has returned
\* (resp, err): resp.Data of a nil resp is a nil pointer dereference.
JSONRespond(w, resp, err) ==
  IF err.type # "nil" THEN [w |-> WriteJSONError(w, err), panic |-> FALSE]
  ELSE IF resp.nil THEN [w |-> w, panic |-> TRUE]
  ELSE IF ~resp.Data.nil
       THEN [w |-> WriteJSONCode(w, resp.StatusCode, resp.Data), panic |-> FALSE]
       ELSE [w |-> w, panic |-> FALSE]

(***************************************************************************)
(* Handlers.  A plan is what the Handler passed to JSON does.              *)
(***************************************************************************)
Plan(kind, code, data, err) == [kind |-> kind, code |-> code, data |-> data, err |-> err]

\* The demo handler of addHandler.
addHandler(w, r) ==
  IF r.Data.nil
  THEN [resp |-> NilResp, err |-> BadRequestError("Missing request data"), w |-> w]
  ELSE [resp |-> NewResponse(PtrW(AddResponse(r.Data.val.A + r.Data.val.B))),
        err |-> NoErr, w |-> w]

h(p, w, r) ==
  CASE p.kind = "add" -> addHandler(w, r)
    [] p.kind = "NewResponse" ->
         [resp |-> NewResponse(p.data), err |-> NoErr, w |-> w]
    [] p.kind = "NewResponseWithCode" ->
         [resp |-> NewResponseWithCode(p.code, p.data), err |-> NoErr, w |-> w]
    [] p.kind = "error" -> [resp |-> NilResp, err |-> p.err, w |-> w]
    [] p.kind = "both" ->
         [resp |-> NewResponseWithCode(p.code, p.data), err |-> p.err, w |-> w]
    [] p.kind = "nil" -> [resp |-> NilResp, err |-> NoErr, w |-> w]
    [] p.kind = "bypass" ->
         [resp |-> NewResponse(NilW), err |-> NoErr,
          w |-> Append(w, WriteOp("handler", <<"text">>))]

(***************************************************************************)
(* Inputs                                                                  *)
(***************************************************************************)
\* JSON objects a client may send, each a list of <<key, value>> members.
Objects ==
  { <<>>,
    << <<"a", "1">> >>,
    << <<"a", "1">>, <<"b", "2">> >>,
    << <<"b", "2">>, <<"a", "1">> >>,
    << <<"c", Quote("s")>>, <<"a", "2">> >>,
    << <<"a", Quote("s")>> >>,
    << <<"a", "1">>, <<"b", Quote("s")>> >>,
    << <<"a", "null">>, <<"b", "1">> >>,
    << <<"a", "1">>, <<"b", "2">>, <<"a", "2">> >> }

RECURSIVE SerMembers(_)
SerMembers(ms) ==
  IF ms = <<>> THEN <<>>
  ELSE <<Quote(ms[1][1]), ":", ms[1][2]>>
       \o (IF Len(ms) > 1 THEN <<",">> ELSE <<>>)
       \o SerMembers(Tail(ms))

Serialize(ms) == <<"{">> \o SerMembers(ms) \o <<"}">>

Scalars == {<<"null">>, <<"1">>, <<Quote("s")>>}

WellFormed == {Serialize(ms) : ms \in Objects} \cup Scalars

Prefixes(s) == {SubSeq(s, 1, k) : k \in 0..Len(s)}

Bodies ==
  UNION {Prefixes(s) : s \in WellFormed}
  \cup {Append(s, "x") : s \in WellFormed}
  \cup {s \o <<"{", "}">> : s \in WellFormed}

SuccessCodes == {0, 99, 200, 201}
ErrorCodes == {-1, 0, 404}
Messages == {"", "X"}
Payloads == {NilW, PtrW(AddResponse(3)), PtrW(Unsupported)}

Errors ==
  {PlainErr}
  \cup {CodeErr(c) : c \in ErrorCodes}
  \cup {MsgErr(m) : m \in Messages}
  \cup {BothErr(c, m) : c \in ErrorCodes, m \in Messages}
  \cup {BadRequestError(m) : m \in Messages}

Plans ==
  {Plan("add", 0, NilW, NoErr), Plan("nil", 0, NilW, NoErr),
   Plan("bypass", 0, NilW, NoErr),
   Plan("both", 201, PtrW(AddResponse(3)), PlainErr)}
  \cup {Plan("NewResponse", 0, d, NoErr) : d \in Payloads}
  \cup {Plan("NewResponseWithCode", c, d, NoErr) : c \in SuccessCodes, d \in Payloads}
  \cup {Plan("error", 0, NilW, e) : e \in Errors}

ConcBodies == {<<>>, Serialize(<< <<"a", "1">>, <<"b", "2">> >>),
               Serialize(<< <<"a", Quote("s")>> >>)}
ConcPlans ==
  {Plan("add", 0, NilW, NoErr),
   Plan("NewResponseWithCode", 201, PtrW(AddResponse(3)), NoErr),
   Plan("error", 0, NilW, BadRequestError("X")),
   Plan("bypass", 0, NilW, NoErr)}

(***************************************************************************)
(* State machine: one dispatch of the closure JSON returns per request,    *)
(* each on its own goroutine.                                              *)
(***************************************************************************)
NoRet == [resp |-> NilResp, err |-> NoErr]

\* One ResponseWriter shared by every request.
WriterShared(i) == 1

\* The ResponseWriter the closure of request i received.
Writer(i) == i

Start(active, bs, ps) ==
  /\ pc = [i \in Requests |-> IF i \in active THEN "start" ELSE "idle"]
  /\ \E b \in [active -> bs] :
       body = [i \in Requests |-> IF i \in active THEN b[i] ELSE <<>>]
  /\ \E p \in [active -> ps] :
       plan = [i \in Requests |->
                 IF i \in active THEN p[i] ELSE Plan("add", 0, NilW, NoErr)]
  /\ req = [i \in Requests |-> [Data |-> NilR]]
  /\ ret = [i \in Requests |-> NoRet]
  /\ sink = [i \in Requests |-> <<>>]
  /\ calls = [i \in Requests |-> 0]

\* One request in flight, with every input.
Init == Start({1}, Bodies, Plans)

\* Every request in flight at once.
InitConc == Start(Requests, ConcBodies, ConcPlans)

\* req := NewRequest[R](r)
DecodeStep(i) ==
  /\ pc[i] = "start"
  /\ req' = [req EXCEPT ![i] = NewRequest(body[i])]
  /\ pc' = [pc EXCEPT ![i] = "call"]
  /\ UNCHANGED <<body, plan, ret, sink, calls>>

\* resp, err := h(w, req)
CallHandler(i) ==
  /\ pc[i] = "call"
  /\ LET o == h(plan[i], sink[Writer(i)], req[i])
     IN /\ ret' = [ret EXCEPT ![i] = [resp |-> o.resp, err |-> o.err]]
        /\ sink' = [sink EXCEPT ![Writer(i)] = o.w]
  /\ calls' = [calls EXCEPT ![i] = @ + 1]
  /\ pc' = [pc EXCEPT ![i] = "returned"]
  /\ UNCHANGED <<body, plan, req>>

\* if err != nil { WriteJSONError; return }; if resp.Data != nil { WriteJSONCode }
Respond(i) ==
  /\ pc[i] = "returned"
  /\ LET o == JSONRespond(sink[Writer(i)], ret[i].resp, ret[i].err)
     IN /\ sink' = [sink EXCEPT ![Writer(i)] = o.w]
        /\ pc' = [pc EXCEPT ![i] = IF o.panic THEN "panic" ELSE "done"]
  /\ UNCHANGED <<body, plan, req, ret, calls>>

Next == \E i \in Requests : DecodeStep(i) \/ CallHandler(i) \/ Respond(i)

Spec == Init /\ [][Next]_vars

SpecConc == InitConc /\ [][Next]_vars

(***************************************************************************)
(* Properties                                                              *)
(***************************************************************************)
\* The operations the adapter (not the handler) performed on request i's sink.
Adapter(i) == SelectSeq(sink[Writer(i)], LAMBDA e : e.by # "handler")

\* A body without the newline json.Encoder ends every value with.
JSONText(b) == IF b # <<>> /\ b[Len(b)] = "\n" THEN SubSeq(b, 1, Len(b) - 1) ELSE b

ContentTypeJSON(e) ==
  e.op = "Header.Set" /\ e.key = "Content-Type" /\ e.val = "application/json"

Status(e, c) == e.op = "WriteHeader" /\ e.code = c

Body(e, text) == e.op = "Write" /\ JSONText(e.bytes) = text

Finished(i) == pc[i] = "done"

Succeeded(i) == Finished(i) /\ ret[i].err = NoErr /\ ~ret[i].resp.nil

HasPayload(i) == Succeeded(i) /\ ~ret[i].resp.Data.nil

Encodable(d) == ~d.nil /\ d.val.kind = "addResponse"

\* The JSON text of an addResponse.
PayloadText(v) == <<"{", Quote("result"), ":", NumTok(v.Result), "}">>

MessageText(m) == <<"{", Quote("message"), ":", Quote(m), "}">>

\* C1 as stated: after a dispatch whose handler returned no error and a
\* Response with a payload, the body written is {"data": <encoded payload>}
\* and Content-Type is application/json.
C1_Original ==
  \A i \in Requests :
    HasPayload(i) /\ Encodable(ret[i].resp.Data) =>
      /\ \E k \in 1..Len(Adapter(i)) : ContentTypeJSON(Adapter(i)[k])
      /\ \E k \in 1..Len(Adapter(i)) :
           Body(Adapter(i)[k],
                <<"{", Quote("data"), ":">>
                  \o PayloadText(ret[i].resp.Data.val) \o <<"}">>)

\* C1 amended: after a dispatch whose handler returned no error and a Response
\* with a payload json can encode, Content-Type is set to application/json and
\* the one body written is the JSON encoding of the payload itself, not
\* wrapped under "data"; a payload json cannot encode gets no body at all.
C1_BarePayload ==
  \A i \in Requests :
    HasPayload(i) =>
      /\ Len(Adapter(i)) >= 2
      /\ ContentTypeJSON(Adapter(i)[1])
      /\ IF Encodable(ret[i].resp.Data)
         THEN /\ Len(Adapter(i)) = 3
              /\ Body(Adapter(i)[3], PayloadText(ret[i].resp.Data.val))
         ELSE \A k \in 1..Len(Adapter(i)) : Adapter(i)[k].op # "Write"

C1_Witness ==
  \E i \in Requests :
    /\ HasPayload(i) /\ ret[i].resp.Data = PtrW(AddResponse(3))
    /\ Len(Adapter(i)) = 3
    /\ Adapter(i)[3].bytes = <<"{", "\"result\"", ":", "3", "}", "\n">>

Decoded(i) == pc[i] \in {"call", "returned", "done", "panic"}

Returned(i) == pc[i] \in {"returned", "done", "panic"}

\* C2: whenever decoding the request body fails (malformed, type mismatch,
\* empty, truncated at the read bound) the envelope's Data is nil, and the
\* handler is still invoked exactly once.
C2_DecodeFailureLeavesNil ==
  \A i \in Requests :
    /\ Decoded(i) /\ Decode(body[i]).err => req[i].Data.nil
    /\ Returned(i) => calls[i] = 1

Max(S) == CHOOSE x \in S : \A y \in S : y <= x

\* The value of field `key` of the object with members ms: the last member
\* of that name, zero when there is none.
FieldOf(ms, key) ==
  LET ks == {k \in 1..Len(ms) : ms[k][1] = key}
  IN IF ks = {} THEN 0 ELSE NumVal(ms[Max(ks)][2])

\* Objects whose members all fit addRequest.
Matching == {ms \in Objects : \A k \in 1..Len(ms) : ms[k][1] \in {"a", "b"} => IsNumber(ms[k][2])}

Trailers == {<<>>, <<"x">>, <<"{", "}">>}

\* C3 as stated: for every valid body matching R, the literal null and a
\* valid value followed by further bytes included, Data is non-nil and equal
\* to the body's value, and the handler has not run before the decoding.
C3_Original ==
  \A i \in Requests :
    /\ calls[i] > 0 => Decoded(i)
    /\ Decoded(i) =>
         /\ \A ms \in Matching : \A t \in Trailers :
              body[i] = Serialize(ms) \o t =>
                req[i].Data = PtrR([A |-> FieldOf(ms, "a"), B |-> FieldOf(ms, "b")])
         /\ \A t \in Trailers : body[i] = <<"null">> \o t => ~req[i].Data.nil

\* C3 amended: for every valid JSON object matching R that ends within the
\* read bound, also when further bytes follow it, Data is non-nil and equal to
\* the object's value before the handler runs; the literal null leaves Data nil.
C3_ObjectsPopulated ==
  \A i \in Requests :
    /\ calls[i] > 0 => Decoded(i)
    /\ Decoded(i) =>
         /\ \A ms \in Matching : \A t \in Trailers :
              body[i] = Serialize(ms) \o t /\ Len(Serialize(ms)) <= ReadLimit =>
                req[i].Data = PtrR([A |-> FieldOf(ms, "a"), B |-> FieldOf(ms, "b")])
         /\ \A t \in Trailers : body[i] = <<"null">> \o t => req[i].Data.nil

C3_Witness ==
  \E i \in Requests :
    /\ pc[i] = "returned" /\ calls[i] = 1
    /\ body[i] = <<"{", "\"b\"", ":", "2", ",", "\"a\"", ":", "1", "}", "x">>
    /\ req[i].Data = PtrR([A |-> 1, B |-> 2])

\* C4: no dispatch ends in a fault, whatever the handler returns.
C4_NoFault == \A i \in Requests : pc[i] # "panic"

\* The status and message WriteJSONError is to render for an error.
ExpectedStatus(e) ==
  CASE e.type = "plain" -> 500
    [] e.type = "code" -> e.code
    [] e.type = "msg" -> 500
    [] e.type = "both" -> e.code
    [] e.type = "BadRequestError" -> 400

ExpectedMessage(e) ==
  CASE e.type = "plain" -> "Internal server error"
    [] e.type = "code" -> "Internal server error"
    [] e.type = "msg" -> e.msg
    [] e.type = "both" -> e.msg
    [] e.type = "BadRequestError" -> IF e.Message = "" THEN "Bad request" ELSE e.Message

Failed(i) == Finished(i) /\ ret[i].err # NoErr

\* C5: an error is rendered with the status of its HTTPCode(), 500 when it
\* has none, and the body {"message": m}, m its HTTPError(), "Internal server
\* error" when it has none; the two capabilities are looked up independently.
C5_ErrorRendering ==
  \A i \in Requests :
    Failed(i) /\ ret[i].err.type # "BadRequestError" =>
      /\ Len(Adapter(i)) = 3
      /\ ContentTypeJSON(Adapter(i)[1])
      /\ Status(Adapter(i)[2], ExpectedStatus(ret[i].err))
      /\ Body(Adapter(i)[3], MessageText(ExpectedMessage(ret[i].err)))

C5_Witness ==
  \E i \in Requests :
    /\ Failed(i) /\ ret[i].err = MsgErr("X")
    /\ Status(Adapter(i)[2], 500)
    /\ Adapter(i)[3].bytes = <<"{", "\"message\"", ":", "\"X\"", "}", "\n">>

\* C6: a BadRequestError returned through JSON is rendered as status 400 with
\* body {"message": M}, M being "Bad request" for an empty Message and the
\* Message otherwise, and Error() equals HTTPError().
C6_BadRequest ==
  \A i \in Requests :
    Failed(i) /\ ret[i].err.type = "BadRequestError" =>
      /\ Len(Adapter(i)) = 3
      /\ Status(Adapter(i)[2], 400)
      /\ Body(Adapter(i)[3],
              MessageText(IF ret[i].err.Message = "" THEN "Bad request"
                          ELSE ret[i].err.Message))
      /\ ErrorString(ret[i].err) = ExpectedMessage(ret[i].err)
      /\ HTTPError(ret[i].err) = ExpectedMessage(ret[i].err)

C6_Witness ==
  \E i \in Requests :
    /\ Failed(i) /\ ret[i].err = BadRequestError("")
    /\ Adapter(i)[2].code = 400
    /\ Adapter(i)[3].bytes = <<"{", "\"message\"", ":", "\"Bad request\"", "}", "\n">>

\* C7: when the handler returns no error and a Response whose Data is nil,
\* the adapter performs no operation on the sink, whatever the status code.
C7_EmptyPayloadNoWrite ==
  \A i \in Requests :
    Succeeded(i) /\ ret[i].resp.Data.nil => Adapter(i) = <<>>

C7_Witness ==
  \E i \in Requests :
    /\ Succeeded(i) /\ ret[i].resp.Data.nil /\ ret[i].resp.StatusCode = 201
    /\ Adapter(i) = <<>>

\* C8: with a payload, the status written is the envelope's StatusCode as it
\* is, 200 when it is zero; NewResponse gives StatusCode 200 and
\* NewResponseWithCode(c, d) gives StatusCode c.
C8_StatusVerbatim ==
  \A i \in Requests :
    /\ HasPayload(i) =>
         /\ Len(Adapter(i)) >= 2
         /\ Status(Adapter(i)[2],
                   IF ret[i].resp.StatusCode = 0 THEN 200 ELSE ret[i].resp.StatusCode)
         /\ Cardinality({k \in 1..Len(Adapter(i)) : Adapter(i)[k].op = "WriteHeader"}) = 1
    /\ Returned(i) /\ plan[i].kind = "NewResponse" => ret[i].resp.StatusCode = 200
    /\ Returned(i) /\ plan[i].kind = "NewResponseWithCode" =>
         ret[i].resp.StatusCode = plan[i].code /\ ret[i].resp.Data = plan[i].data

C8_Witness ==
  \E i \in Requests :
    /\ HasPayload(i) /\ plan[i].kind = "NewResponseWithCode"
    /\ ret[i].resp.StatusCode = 0 /\ Adapter(i)[2].code = 200

C8_WitnessVerbatim ==
  \E i \in Requests : HasPayload(i) /\ ret[i].resp.StatusCode = 99 /\ Adapter(i)[2].code = 99

Ops(w) == [k \in 1..Len(w) |-> w[k].op]

\* C9 as stated: when the handler does not write to the sink, the operations
\* on it are none or exactly Header.Set, WriteHeader, Write in that order, none
\* before the handler returned, and on the error path all by WriteJSONError.
C9_Original ==
  \A i \in Requests :
    plan[i].kind # "bypass" =>
      /\ Ops(sink[Writer(i)]) \in {<<>>, <<"Header.Set", "WriteHeader", "Write">>}
      /\ ~Finished(i) => sink[Writer(i)] = <<>>
      /\ Failed(i) => \A k \in 1..Len(sink[Writer(i)]) : sink[Writer(i)][k].by = "WriteJSONError"

\* C9 amended: when the handler does not write to the sink, the operations on
\* it are none, or Header.Set, WriteHeader, Write in that order, or only
\* Header.Set, WriteHeader when the handler returned no error and a payload
\* json cannot encode; none occurs before the handler returned, and on the
\* error path all three are by WriteJSONError.
C9_SinkOrder ==
  \A i \in Requests :
    plan[i].kind # "bypass" =>
      /\ \/ Ops(sink[Writer(i)]) \in {<<>>, <<"Header.Set", "WriteHeader", "Write">>}
         \/ /\ Ops(sink[Writer(i)]) = <<"Header.Set", "WriteHeader">>
            /\ HasPayload(i) /\ ~Encodable(ret[i].resp.Data)
      /\ ~Finished(i) => sink[Writer(i)] = <<>>
      /\ Failed(i) =>
           /\ Len(sink[Writer(i)]) = 3
           /\ \A k \in 1..3 : sink[Writer(i)][k].by = "WriteJSONError"

C9_Witness ==
  \E i \in Requests :
    /\ Failed(i) /\ plan[i].kind = "both"
    /\ Ops(sink[Writer(i)]) = <<"Header.Set", "WriteHeader", "Write">>

\* What the dispatch of a request with body b and plan p does when it is the
\* only one: the envelope the handler gets, the sink at the end, the outcome.
Alone(b, p) ==
  LET r == NewRequest(b)
      o == h(p, <<>>, r)
      f == JSONRespond(o.w, o.resp, o.err)
  IN [req |-> r, sink |-> f.w, pc |-> IF f.panic THEN "panic" ELSE "done"]

\* C10: under any interleaving of concurrent dispatches, each request's
\* decoded payload and what is written to its sink are those of the request
\* dispatched alone, and nothing reaches a sink before its own handler ran.
C10_Isolation ==
  \A i \in Requests :
    /\ pc[i] \in {"start", "call"} => sink[i] = <<>>
    /\ Decoded(i) => req[i] = Alone(body[i], plan[i]).req
    /\ pc[i] \in {"done", "panic"} =>
         sink[i] = Alone(body[i], plan[i]).sink /\ pc[i] = Alone(body[i], plan[i]).pc

C10_Witness ==
  /\ \A i \in Requests : Finished(i) /\ sink[i] # <<>>
  /\ \E i, j \in Requests : sink[i] # sink[j]

====
